---- MODULE Spec2Model ----
(***************************************************************************)
(* kanidm_sshkey_fetcher: model of src/main.rs.                            *)
(*                                                                         *)
(* Strings are sequences of one-character strings; offsets are 0-based     *)
(* byte offsets as in Rust (the modelled alphabet is ASCII, one byte per   *)
(* character).                                                             *)
(***************************************************************************)
EXTENDS Integers, Sequences, FiniteSets, TLC

\* ------------------------------------------------------------------ bounds
\* A file on disk is built from at most MaxSegs pieces of Pieces.
MaxSegs == 4
\* Number of successive invocations of modify_authorized_keys explored.
MaxCalls == 2
\* Number of account ids each configuration source may give.
MaxAccounts == 1

\* --------------------------------------------------------------- constants
MANAGED_KEYS_START ==
  <<"#"," ","M","a","n","a","g","e","d"," ","K","e","y","s"," ","b","y"," ","k","a","n","i","d","m","_","s","s","h","k","e","y","_","f","e","t","c","h","e","r">>

MANAGED_KEYS_END ==
  <<"#"," ","E","n","d"," ","o","f"," ","M","a","n","a","g","e","d"," ","K","e","y","s"," ","b","y"," ","k","a","n","i","d","m","_","s","s","h","k","e","y","_","f","e","t","c","h","e","r">>

NL == <<"\n">>

\* ----------------------------------------------------------- string helpers
\* s[a..b) with 0-based byte offsets.
Slice(s, a, b) == SubSeq(s, a + 1, b)

IsPrefix(p, s) == Len(p) <= Len(s) /\ SubSeq(s, 1, Len(p)) = p

IsSuffix(p, s) == Len(p) <= Len(s) /\ SubSeq(s, Len(s) - Len(p) + 1, Len(s)) = p

\* The byte offsets at which pat occurs in s.
Occurrences(s, pat) ==
  {i \in 0..(Len(s) - Len(pat)) : s[i + 1] = pat[1] /\ SubSeq(s, i + 1, i + Len(pat)) = pat}

\* str::find: the byte offset of the first occurrence of pat in s, -1 for None.
Find(s, pat) ==
  LET hits == Occurrences(s, pat)
  IN IF hits = {} THEN -1 ELSE CHOOSE i \in hits : \A j \in hits : i <= j

\* s.find(pat).unwrap_or(s.len())
FindOrLen(s, pat) == IF Find(s, pat) = -1 THEN Len(s) ELSE Find(s, pat)

\* Number of occurrences of pat in s.
Count(s, pat) == Cardinality(Occurrences(s, pat))

RECURSIVE Flatten(_)
Flatten(ss) == IF ss = <<>> THEN <<>> ELSE Head(ss) \o Flatten(Tail(ss))

\* ------------------------------------------------- modify_authorized_keys
\* The for loop that renders the keys: each key followed by a line break.
RECURSIVE Render(_)
Render(keys) ==
  IF keys = <<>> THEN <<>> ELSE Head(keys) \o NL \o Render(Tail(keys))

\* Mutant of ReplaceRange: the replaced range runs one byte too far.
ReplaceRangeOffByOne(s, a, b, r) ==
  IF a > b \/ b > Len(s)
  THEN [panic |-> TRUE, str |-> s]
  ELSE [panic |-> FALSE, str |-> Slice(s, 0, a) \o r \o Slice(s, b + 1, Len(s))]

\* String::replace_range(a..b, r): panics when a > b or b > len.
ReplaceRange(s, a, b, r) ==
  IF a > b \/ b > Len(s)
  THEN [panic |-> TRUE, str |-> s]
  ELSE [panic |-> FALSE, str |-> Slice(s, 0, a) \o r \o Slice(s, b, Len(s))]

\* The block appended when no managed section is found.
AppendedBlock(keys) ==
  NL \o MANAGED_KEYS_START \o NL \o NL \o Render(keys) \o NL \o MANAGED_KEYS_END \o NL

\* Mutant of ModifyContent: the section is always appended, never replaced.
ModifyContentAlwaysAppend(authorized_keys, keys) ==
  [panic |-> FALSE, str |-> authorized_keys \o AppendedBlock(keys)]

\* Lines 111-135: the new content of the file, or a panic.
ModifyContent(authorized_keys, keys) ==
  LET start_index == FindOrLen(authorized_keys, MANAGED_KEYS_START)
      end_index   == FindOrLen(authorized_keys, MANAGED_KEYS_END)
      new_content == Render(keys)
  IN IF start_index < end_index
     THEN ReplaceRange(authorized_keys,
                       start_index + Len(MANAGED_KEYS_START) + 2,
                       end_index,
                       new_content \o NL)
     ELSE [panic |-> FALSE, str |-> authorized_keys \o AppendedBlock(keys)]

\* ------------------------------------------------------------ input sets
Pieces == {MANAGED_KEYS_START, MANAGED_KEYS_END, NL, <<"a", "\n">>}

Files == {Flatten(ps) : ps \in UNION {[1..n -> Pieces] : n \in 0..MaxSegs}}

KeyK == <<"k">>
KeyJ == <<"s", "s", "h", "-", "j">>

KeyLists == {<<>>, <<KeyK, KeyJ>>, <<KeyJ, KeyJ>>}

VARIABLES
  dirExists,    \* ~/.ssh exists
  fileExists,   \* ~/.ssh/authorized_keys exists
  disk,         \* content of ~/.ssh/authorized_keys (<<>> when absent)
  pc,           \* position inside modify_authorized_keys
  keysArg,      \* keys argument of the current/last call
  readContent,  \* authorized_keys as read at line 105-106
  before,       \* content on disk when the current/last call started
  beforeExists, \* whether the file existed when the call started
  pending,      \* content handed to std::fs::write
  ret,          \* result of the last call
  ioFault,      \* I/O failure met by the current/last call
  calls,        \* number of calls started
  prevKeys,     \* keys argument of the call before the current/last one
  initial       \* content on disk before the first call

syncVars == <<dirExists, fileExists, disk, pc, keysArg, readContent, before,
              beforeExists, pending, ret, ioFault, calls, prevKeys, initial>>

VARIABLES
  mpc,          \* position inside main
  args,         \* main's args: the parsed command line, merged at line 155
  cli,          \* the command line as parsed at line 146
  cfgFile,      \* the file named by --config: unreadable, unparsable or parsed, and its content
  defaults,     \* the two default client config locations as build_configured_client met them
  clientBuilt,  \* build_configured_client returned a client
  authResult,   \* result of auth_anonymous
  queried,      \* account ids passed to idm_account_get_ssh_pubkeys, in order
  fetched,      \* the result of each of these calls: Ok(pkeys) or Err
  mainKeys,     \* main's keys vector
  status,       \* exit status of the run
  failCause,    \* the step that made the run fail
  rustLog       \* RUST_LOG as set at line 160

mainVars == <<mpc, args, cli, cfgFile, defaults, clientBuilt, authResult,
              queried, fetched, mainKeys, status, failCause, rustLog>>

vars == <<syncVars, mainVars>>

\* The state of modify_authorized_keys before its first call, the file being one of fs.
InitFile(fs) ==
  /\ dirExists \in BOOLEAN
  /\ fileExists \in (IF dirExists THEN BOOLEAN ELSE {FALSE})
  /\ disk \in (IF fileExists THEN fs ELSE {<<>>})
  /\ pc = "idle"
  /\ keysArg = <<>>
  /\ readContent = <<>>
  /\ before = <<>>
  /\ beforeExists = FALSE
  /\ pending = <<>>
  /\ ret = "none"
  /\ ioFault = "none"
  /\ calls = 0
  /\ prevKeys = <<>>
  /\ initial = disk

\* Lines 93-135 with the content read at line 105-106 given: the call either
\* panics in replace_range or reaches std::fs::write with the new content.
Compute(keys, content, fault) ==
  LET r == ModifyContent(content, keys)
  IN /\ keysArg' = keys
     /\ prevKeys' = keysArg
     /\ readContent' = content
     /\ before' = disk
     /\ beforeExists' = fileExists
     /\ ioFault' = fault
     /\ calls' = calls + 1
     /\ IF r.panic
        THEN /\ pc' = "idle"
             /\ ret' = "panic"
             /\ pending' = <<>>
        ELSE /\ pc' = "write_open"
             /\ ret' = "none"
             /\ pending' = r.str
     /\ UNCHANGED <<fileExists, disk, initial>>

\* modify_authorized_keys up to std::fs::write, the directory being there or
\* created and the file read or absent.
Call(keys) ==
  /\ pc = "idle"
  /\ dirExists' = TRUE
  /\ Compute(keys, disk, "none")

\* create_dir fails (line 99-100): Err.
CallMkdirFails(keys) ==
  /\ pc = "idle"
  /\ ~dirExists
  /\ keysArg' = keys
  /\ prevKeys' = keysArg
  /\ readContent' = <<>>
  /\ before' = disk
  /\ beforeExists' = fileExists
  /\ ioFault' = "mkdir"
  /\ calls' = calls + 1
  /\ pc' = "idle"
  /\ ret' = "Err"
  /\ pending' = <<>>
  /\ UNCHANGED <<dirExists, fileExists, disk, initial>>

\* read_to_string fails on an existing file (line 106): unwrap_or_else gives "".
CallReadFails(keys) ==
  /\ pc = "idle"
  /\ fileExists
  /\ UNCHANGED dirExists
  /\ Compute(keys, <<>>, "read")

\* std::fs::write, File::create: the file is created or truncated.
WriteOpen ==
  /\ pc = "write_open"
  /\ fileExists' = TRUE
  /\ disk' = <<>>
  /\ pc' = "write_all"
  /\ UNCHANGED <<dirExists, keysArg, readContent, before, beforeExists, pending,
                 ret, ioFault, calls, prevKeys, initial>>
  /\ UNCHANGED mainVars

\* std::fs::write, File::create fails: nothing is written, Err (line 139).
WriteOpenFails ==
  /\ pc = "write_open"
  /\ pc' = "idle"
  /\ ret' = "Err"
  /\ ioFault' = "write"
  /\ UNCHANGED <<dirExists, fileExists, disk, keysArg, readContent, before,
                 beforeExists, pending, calls, prevKeys, initial>>
  /\ UNCHANGED mainVars

\* std::fs::write, write_all succeeds: Ok (line 141).
WriteAll ==
  /\ pc = "write_all"
  /\ disk' = pending
  /\ pc' = "idle"
  /\ ret' = "Ok"
  /\ UNCHANGED <<dirExists, fileExists, keysArg, readContent, before,
                 beforeExists, pending, ioFault, calls, prevKeys, initial>>
  /\ UNCHANGED mainVars

\* Lengths at which a failing write_all may stop.
Cuts(n) == {c \in {0, n \div 2, n - 1} : 0 <= c /\ c < n}

\* std::fs::write, write_all fails part-way: Err (line 139).
WriteAllFails ==
  /\ pc = "write_all"
  /\ \E c \in Cuts(Len(pending)) : disk' = Slice(pending, 0, c)
  /\ pc' = "idle"
  /\ ret' = "Err"
  /\ ioFault' = "write"
  /\ UNCHANGED <<dirExists, fileExists, keysArg, readContent, before,
                 beforeExists, pending, calls, prevKeys, initial>>
  /\ UNCHANGED mainVars

\* ------------------------------------------------ repeated synchronisations
None == "None"

\* A Cli with every field unset.
UnsetCli ==
  [debug |-> FALSE, addr |-> None, ca_path |-> None, config_path |-> None,
   account_ids |-> <<>>, modify |-> FALSE]

NoFile == [state |-> "none", content |-> UnsetCli]

\* main is not running.
MainOff ==
  /\ mpc = "off"
  /\ args = UnsetCli
  /\ cli = UnsetCli
  /\ cfgFile = NoFile
  /\ defaults = <<>>
  /\ clientBuilt = FALSE
  /\ authResult = "none"
  /\ queried = <<>>
  /\ fetched = <<>>
  /\ mainKeys = <<>>
  /\ status = "running"
  /\ failCause = "none"
  /\ rustLog = None

InitSync == InitFile(Files) /\ MainOff

ModifyAuthorizedKeys ==
  \E keys \in KeyLists : calls < MaxCalls /\ Call(keys) /\ UNCHANGED mainVars

ModifyMkdirFails ==
  \E keys \in KeyLists : calls < MaxCalls /\ CallMkdirFails(keys) /\ UNCHANGED mainVars

ModifyReadFails ==
  \E keys \in KeyLists : calls < MaxCalls /\ CallReadFails(keys) /\ UNCHANGED mainVars

\* Successive runs of modify_authorized_keys on a file system that does not fail.
NextSync ==
  \/ ModifyAuthorizedKeys
  \/ WriteOpen
  \/ WriteAll

SpecSync == InitSync /\ [][NextSync]_vars

\* Successive runs of modify_authorized_keys on a file system that may fail.
Next ==
  \/ ModifyAuthorizedKeys
  \/ ModifyMkdirFails
  \/ ModifyReadFails
  \/ WriteOpen
  \/ WriteOpenFails
  \/ WriteAll
  \/ WriteAllFails

Spec == InitSync /\ [][Next]_vars

\* ------------------------------------------------------------------- main
Accounts == {"alice", "bob"}

\* The keys the identity server holds for an account.
ServerKeys(id) == IF id = "alice" THEN <<KeyK, KeyJ>> ELSE <<KeyJ>>

AccountLists == UNION {[1..n -> Accounts] : n \in 0..MaxAccounts}

\* Mutant of CliOr: the other source wins where both set a field.
CliOrOtherWins(self, other) ==
  [self EXCEPT
     !.debug = self.debug \/ other.debug,
     !.addr = IF other.addr # None THEN other.addr ELSE self.addr,
     !.ca_path = IF other.ca_path # None THEN other.ca_path ELSE self.ca_path,
     !.account_ids = self.account_ids \o other.account_ids,
     !.modify = self.modify \/ other.modify]

\* Cli::or: self after self.or(&other).
CliOr(self, other) ==
  [self EXCEPT
     !.debug = self.debug \/ other.debug,
     !.addr = IF self.addr # None THEN self.addr ELSE other.addr,
     !.ca_path = IF self.ca_path # None THEN self.ca_path ELSE other.ca_path,
     !.account_ids = self.account_ids \o other.account_ids,
     !.modify = self.modify \/ other.modify]

\* KanidmClientBuilder::read_options_from_optional_config on a default location.
ReadOptionalConfig(location) == IF location = "invalid" THEN "Err" ELSE "Ok"

\* build_configured_client: "Ok", or the step whose error it returns.
BuildConfiguredClient(a, etcConfig, homeConfig, caOk, buildOk) ==
  IF ReadOptionalConfig(etcConfig) = "Err" THEN "default_config"
  ELSE IF ReadOptionalConfig(homeConfig) = "Err" THEN "default_config"
  ELSE IF a.ca_path # None /\ ~caOk THEN "ca"
  ELSE IF ~buildOk THEN "build"
  ELSE "Ok"

\* main returns Err(()) at the step named by cause.
Fail(cause) ==
  /\ mpc' = "done"
  /\ status' = "failure"
  /\ failCause' = cause

\* Line 148: no --config was given.
MainNoConfig ==
  /\ mpc = "start"
  /\ args.config_path = None
  /\ mpc' = "tracing"
  /\ UNCHANGED <<args, cli, cfgFile, defaults, clientBuilt, authResult, queried,
                 fetched, mainKeys, status, failCause, rustLog>>
  /\ UNCHANGED syncVars

\* Lines 149-150: the file named by --config cannot be read.
MainConfigReadFails ==
  /\ mpc = "start"
  /\ args.config_path # None
  /\ cfgFile.state = "unreadable"
  /\ Fail("config_read")
  /\ UNCHANGED <<args, cli, cfgFile, defaults, clientBuilt, authResult, queried,
                 fetched, mainKeys, rustLog>>
  /\ UNCHANGED syncVars

\* Mutant of MainConfigParseFails: the parse error is ignored.
MainConfigParseIgnored ==
  /\ mpc = "start"
  /\ args.config_path # None
  /\ cfgFile.state = "unparsable"
  /\ mpc' = "tracing"
  /\ UNCHANGED <<args, cli, cfgFile, defaults, clientBuilt, authResult, queried,
                 fetched, mainKeys, status, failCause, rustLog>>
  /\ UNCHANGED syncVars

\* Lines 152-153: the file named by --config cannot be parsed.
MainConfigParseFails ==
  /\ mpc = "start"
  /\ args.config_path # None
  /\ cfgFile.state = "unparsable"
  /\ Fail("config_parse")
  /\ UNCHANGED <<args, cli, cfgFile, defaults, clientBuilt, authResult, queried,
                 fetched, mainKeys, rustLog>>
  /\ UNCHANGED syncVars

\* Lines 149-155: the file named by --config is parsed and merged.
MainConfigMerge ==
  /\ mpc = "start"
  /\ args.config_path # None
  /\ cfgFile.state = "parsed"
  /\ args' = CliOr(args, cfgFile.content)
  /\ mpc' = "tracing"
  /\ UNCHANGED <<cli, cfgFile, defaults, clientBuilt, authResult, queried,
                 fetched, mainKeys, status, failCause, rustLog>>
  /\ UNCHANGED syncVars

\* Lines 158-163.
MainInitTracing ==
  /\ mpc = "tracing"
  /\ rustLog' = IF args.debug THEN "kanidm=debug,kanidm_client=debug" ELSE rustLog
  /\ mpc' = "client"
  /\ UNCHANGED <<args, cli, cfgFile, defaults, clientBuilt, authResult, queried,
                 fetched, mainKeys, status, failCause>>
  /\ UNCHANGED syncVars

DefaultStates == {"absent", "valid", "invalid"}

\* Line 165.
MainBuildClient ==
  /\ mpc = "client"
  /\ \E etcConfig \in DefaultStates, homeConfig \in DefaultStates,
        caOk \in BOOLEAN, buildOk \in BOOLEAN :
       LET r == BuildConfiguredClient(args, etcConfig, homeConfig, caOk, buildOk)
       IN /\ defaults' = <<etcConfig, homeConfig>>
          /\ IF r = "Ok"
             THEN /\ clientBuilt' = TRUE
                  /\ mpc' = "auth"
                  /\ UNCHANGED <<status, failCause>>
             ELSE /\ Fail(r)
                  /\ UNCHANGED clientBuilt
  /\ UNCHANGED <<args, cli, cfgFile, authResult, queried, fetched, mainKeys, rustLog>>
  /\ UNCHANGED syncVars

\* Lines 167-175: an authentication error is logged.
MainAuth ==
  /\ mpc = "auth"
  /\ authResult' \in {"ok", "transport", "other"}
  /\ mpc' = "loop"
  /\ UNCHANGED <<args, cli, cfgFile, defaults, clientBuilt, queried, fetched,
                 mainKeys, status, failCause, rustLog>>
  /\ UNCHANGED syncVars

\* Lines 179-184: the keys of the next account are retrieved.
MainFetchOk ==
  /\ mpc = "loop"
  /\ Len(queried) < Len(args.account_ids)
  /\ LET id == args.account_ids[Len(queried) + 1]
     IN /\ queried' = Append(queried, id)
        /\ fetched' = Append(fetched, [ok |-> TRUE, pkeys |-> ServerKeys(id)])
        /\ mainKeys' = mainKeys \o ServerKeys(id)
  /\ UNCHANGED <<mpc, args, cli, cfgFile, defaults, clientBuilt, authResult,
                 status, failCause, rustLog>>
  /\ UNCHANGED syncVars

\* Mutant of MainFetchErr: a failed retrieval ends the run.
MainFetchErrAborts ==
  /\ mpc = "loop"
  /\ Len(queried) < Len(args.account_ids)
  /\ queried' = Append(queried, args.account_ids[Len(queried) + 1])
  /\ fetched' = Append(fetched, [ok |-> FALSE, pkeys |-> <<>>])
  /\ Fail("fetch")
  /\ UNCHANGED <<args, cli, cfgFile, defaults, clientBuilt, authResult,
                 mainKeys, rustLog>>
  /\ UNCHANGED syncVars

\* Lines 179-180, 186: the retrieval for the next account fails.
MainFetchErr ==
  /\ mpc = "loop"
  /\ Len(queried) < Len(args.account_ids)
  /\ queried' = Append(queried, args.account_ids[Len(queried) + 1])
  /\ fetched' = Append(fetched, [ok |-> FALSE, pkeys |-> <<>>])
  /\ UNCHANGED <<mpc, args, cli, cfgFile, defaults, clientBuilt, authResult,
                 mainKeys, status, failCause, rustLog>>
  /\ UNCHANGED syncVars

\* Lines 188-195 with modify unset: Ok(()).
MainDone ==
  /\ mpc = "loop"
  /\ Len(queried) = Len(args.account_ids)
  /\ ~args.modify
  /\ mpc' = "done"
  /\ status' = "success"
  /\ UNCHANGED <<args, cli, cfgFile, defaults, clientBuilt, authResult, queried,
                 fetched, mainKeys, failCause, rustLog>>
  /\ UNCHANGED syncVars

MainUnchangedInModify ==
  UNCHANGED <<args, cli, cfgFile, defaults, clientBuilt, authResult, queried,
              fetched, mainKeys, status, failCause, rustLog>>

\* Lines 191-192: modify_authorized_keys(keys) is called.
MainModify ==
  /\ mpc = "loop"
  /\ Len(queried) = Len(args.account_ids)
  /\ args.modify
  /\ Call(mainKeys)
  /\ mpc' = "modify"
  /\ MainUnchangedInModify

\* Lines 191-192, create_dir failing inside the call.
MainModifyMkdirFails ==
  /\ mpc = "loop"
  /\ Len(queried) = Len(args.account_ids)
  /\ args.modify
  /\ CallMkdirFails(mainKeys)
  /\ mpc' = "modify"
  /\ MainUnchangedInModify

\* Lines 191-192, read_to_string failing inside the call.
MainModifyReadFails ==
  /\ mpc = "loop"
  /\ Len(queried) = Len(args.account_ids)
  /\ args.modify
  /\ CallReadFails(mainKeys)
  /\ mpc' = "modify"
  /\ MainUnchangedInModify

\* Lines 192-195: the call has returned; Err ends the run with a failure, as
\* does a panic.
MainModifyReturns ==
  /\ mpc = "modify"
  /\ pc = "idle"
  /\ mpc' = "done"
  /\ status' = IF ret = "Ok" THEN "success" ELSE "failure"
  /\ failCause' = IF ret = "Ok" THEN failCause ELSE "modify"
  /\ UNCHANGED <<args, cli, cfgFile, defaults, clientBuilt, authResult, queried,
                 fetched, mainKeys, rustLog>>
  /\ UNCHANGED syncVars

\* --config files that cannot be read or parsed, and those with the given contents.
FileStates(contents) ==
  {[state |-> s, content |-> UnsetCli] : s \in {"unreadable", "unparsable"}}
    \cup {[state |-> "parsed", content |-> c] : c \in contents}

\* The command lines and --config files of the given field values.
CliValues(debugs, addrs, cas, paths, modifies) ==
  [debug : debugs, addr : addrs, ca_path : cas, config_path : paths,
   account_ids : AccountLists, modify : modifies]

\* main starts on command line c, the --config file (if any) being one of fileStates.
InitMain(clis, fileStates) ==
  /\ cli \in clis
  /\ args = cli
  /\ cfgFile \in (IF cli.config_path = None THEN {NoFile} ELSE fileStates)
  /\ mpc = "start"
  /\ defaults = <<>>
  /\ clientBuilt = FALSE
  /\ authResult = "none"
  /\ queried = <<>>
  /\ fetched = <<>>
  /\ mainKeys = <<>>
  /\ status = "running"
  /\ failCause = "none"
  /\ rustLog = None

\* ------------------------------------------- configuration resolution alone
ConfigClis ==
  CliValues(BOOLEAN, {None, "https://cli"}, {None, "/cli.pem"}, {None, "cli.toml"}, BOOLEAN)

ConfigFiles ==
  FileStates(CliValues(BOOLEAN, {None, "https://file"}, {None, "/file.pem"}, {None}, BOOLEAN))

InitConfig == InitFile({<<>>}) /\ InitMain(ConfigClis, ConfigFiles)

\* Lines 146-156 of main on every command line and --config file.
NextConfig ==
  \/ MainNoConfig
  \/ MainConfigReadFails
  \/ MainConfigParseFails
  \/ MainConfigMerge

SpecConfig == InitConfig /\ [][NextConfig]_vars

\* ------------------------------------------------------------ one run of main
MainClis ==
  CliValues({FALSE}, {"https://cli"}, {None, "/cli.pem"}, {None, "cli.toml"}, BOOLEAN)

MainConfigFiles == FileStates(CliValues({TRUE}, {None}, {None}, {None}, BOOLEAN))

MainFiles == {<<"a", "\n">>, MANAGED_KEYS_START \o NL \o MANAGED_KEYS_END}

InitRun == InitFile(MainFiles) /\ InitMain(MainClis, MainConfigFiles)

NextMain ==
  \/ MainNoConfig
  \/ MainConfigReadFails
  \/ MainConfigParseFails
  \/ MainConfigMerge
  \/ MainInitTracing
  \/ MainBuildClient
  \/ MainAuth
  \/ MainFetchOk
  \/ MainFetchErr
  \/ MainDone
  \/ MainModify
  \/ MainModifyMkdirFails
  \/ MainModifyReadFails
  \/ WriteOpen
  \/ WriteOpenFails
  \/ WriteAll
  \/ WriteAllFails
  \/ MainModifyReturns

SpecMain == InitRun /\ [][NextMain]_vars

\* ------------------------------------------------------------- properties
\* A call of modify_authorized_keys has returned (or panicked).
Returned == pc = "idle" /\ calls >= 1

\* Both markers are found and the start marker precedes the end marker.
HasRegion(s) ==
  /\ Find(s, MANAGED_KEYS_START) # -1
  /\ Find(s, MANAGED_KEYS_END) # -1
  /\ Find(s, MANAGED_KEYS_START) < Find(s, MANAGED_KEYS_END)

\* The first start marker is followed by a line break.
StartLineBreak(s) ==
  LET n == Find(s, MANAGED_KEYS_START) + Len(MANAGED_KEYS_START)
  IN n < Len(s) /\ s[n + 1] = "\n"

NoMarker(s) == Find(s, MANAGED_KEYS_START) = -1 /\ Find(s, MANAGED_KEYS_END) = -1

\* The keys, one per line, in order.
KeyLines(keys) == Flatten([i \in 1..Len(keys) |-> keys[i] \o NL])

\* A newline, the start marker, a blank line, the keys, a blank line, the end marker.
FreshRegion(keys) ==
  NL \o MANAGED_KEYS_START \o NL \o NL \o KeyLines(keys) \o NL \o MANAGED_KEYS_END \o NL

\* C1: running the operation twice in a row with the same key list leaves the
\* file byte-identical to the file after running it once.
C1_Idempotent ==
  (Returned /\ calls >= 2 /\ keysArg = prevKeys) => disk = before

\* C2: the text before the first start marker and the text from the first end
\* marker onward are unchanged by a call: with a region (start before end) the
\* written file is that prefix, some text, that suffix; otherwise the prefix
\* stays in front and the text from the end marker onward stays where it was.
C2_Preservation ==
  Returned =>
    LET s   == FindOrLen(before, MANAGED_KEYS_START)
        e   == FindOrLen(before, MANAGED_KEYS_END)
        pre == Slice(before, 0, s)
        suf == Slice(before, e, Len(before))
    IN /\ IsPrefix(pre, disk)
       /\ Find(before, MANAGED_KEYS_END) # -1 =>
            IF s < e
            THEN IsSuffix(suf, disk) /\ Len(disk) >= Len(pre) + Len(suf)
            ELSE Len(disk) >= Len(before) /\ Slice(disk, e, Len(before)) = suf

\* A call replaced the region of a file with text before the start marker.
C2_Witness ==
  /\ Returned
  /\ ret = "Ok"
  /\ HasRegion(before)
  /\ Find(before, MANAGED_KEYS_START) > 0
  /\ keysArg # <<>>
  /\ disk # before

\* C3: from a file F with neither marker, after any non-empty sequence of calls
\* the file is F, a newline, the start marker, a blank line, the keys of the
\* last call only (in order, duplicates kept), a blank line and the end marker;
\* it holds one start and one end marker, the start first, and no line of an
\* earlier key list that is not in the last one.
C3_WholesaleReplacement ==
  (Returned /\ NoMarker(initial)) =>
    /\ ret = "Ok"
    /\ disk = initial \o FreshRegion(keysArg)
    /\ Count(disk, MANAGED_KEYS_START) = 1
    /\ Count(disk, MANAGED_KEYS_END) = 1
    /\ Find(disk, MANAGED_KEYS_START) < Find(disk, MANAGED_KEYS_END)
    /\ calls >= 2 =>
         \A i \in 1..Len(prevKeys) :
           (\A j \in 1..Len(keysArg) : keysArg[j] # prevKeys[i])
             => Find(disk, NL \o prevKeys[i] \o NL) = -1

\* A second call replaced the keys of a first one in a file that had content.
C3_Witness ==
  /\ Returned
  /\ calls >= 2
  /\ NoMarker(initial)
  /\ initial # <<>>
  /\ prevKeys = <<KeyK, KeyJ>>
  /\ keysArg = <<KeyJ, KeyJ>>

\* C4: every I/O failure in the operation makes the call return an error, and
\* the content is taken to be empty only when the file does not exist.
C4_FailureSemantics ==
  Returned =>
    /\ ioFault # "none" => ret = "Err"
    /\ (readContent = <<>> /\ before # <<>>) => ret = "Err"

\* C8: a reader of the file only ever sees the complete old content or the
\* complete new content.
C8_AtomicWrite ==
  (calls >= 1 /\ beforeExists) =>
    /\ fileExists
    /\ disk = before \/ (pending # <<>> /\ disk = pending)

\* C9: when the file does not hold both markers with the start marker first, the
\* written file is the whole existing content followed by a fresh region.
C9_CaseB ==
  (Returned /\ ~HasRegion(before)) =>
    /\ ret = "Ok"
    /\ disk = before \o FreshRegion(keysArg)

\* C10: when both markers are found and the start marker precedes the end
\* marker, the call completes and the written file is the content up to and
\* including the start marker and its one line break, the keys one per line, a
\* blank line, and the content from the end marker onward.
C10_CaseA ==
  (Returned /\ HasRegion(before) /\ StartLineBreak(before)) =>
    /\ ret = "Ok"
    /\ disk = Slice(before, 0, Find(before, MANAGED_KEYS_START) + Len(MANAGED_KEYS_START) + 1)
              \o KeyLines(keysArg) \o NL
              \o Slice(before, Find(before, MANAGED_KEYS_END), Len(before))

\* The keys of the retrievals that succeeded, in retrieval order.
SuccessfulKeys(results) ==
  Flatten([i \in 1..Len(results) |-> IF results[i].ok THEN results[i].pkeys ELSE <<>>])

\* C5: accounts are queried one at a time in the order of the resolved list; a
\* failed retrieval or authentication stops neither the later retrievals nor the
\* run; the list passed to modify_authorized_keys is the concatenation of the
\* keys of the successful retrievals; the run ends with a success status unless
\* modify_authorized_keys itself fails.
C5_BestEffort ==
  /\ Len(queried) <= Len(args.account_ids)
  /\ queried = SubSeq(args.account_ids, 1, Len(queried))
  /\ Len(fetched) = Len(queried)
  /\ mainKeys = SuccessfulKeys(fetched)
  /\ (clientBuilt /\ mpc \in {"modify", "done"}) => queried = args.account_ids
  /\ (mpc = "modify" \/ (mpc = "done" /\ calls >= 1)) => keysArg = SuccessfulKeys(fetched)
  /\ (clientBuilt /\ mpc = "done" /\ (~args.modify \/ ret = "Ok")) => status = "success"
  /\ (clientBuilt /\ mpc = "done" /\ status = "failure") => failCause = "modify"

\* A run whose authentication and first retrieval failed wrote the keys of the second.
C5_Witness ==
  /\ mpc = "done"
  /\ status = "success"
  /\ authResult = "transport"
  /\ Len(fetched) = 2
  /\ ~fetched[1].ok
  /\ fetched[2].ok
  /\ args.modify
  /\ ret = "Ok"
  /\ disk # before

\* C6: after cli.or(file) the address and CA path are the command line's when it
\* set them and the file's otherwise, debug and modify are the OR of the two
\* sources, and the accounts are the command line's followed by the file's.
C6_ConfigMerge ==
  (mpc # "start" /\ cfgFile.state = "parsed") =>
    LET f == cfgFile.content
    IN /\ cli.addr # None => args.addr = cli.addr
       /\ cli.addr = None => args.addr = f.addr
       /\ cli.ca_path # None => args.ca_path = cli.ca_path
       /\ cli.ca_path = None => args.ca_path = f.ca_path
       /\ args.debug <=> (cli.debug \/ f.debug)
       /\ args.modify <=> (cli.modify \/ f.modify)
       /\ Len(args.account_ids) = Len(cli.account_ids) + Len(f.account_ids)
       /\ \A i \in 1..Len(cli.account_ids) : args.account_ids[i] = cli.account_ids[i]
       /\ \A i \in 1..Len(f.account_ids) :
            args.account_ids[Len(cli.account_ids) + i] = f.account_ids[i]

\* A merge where each source sets what the other leaves unset, both set the CA
\* path and both name the same account.
C6_Witness ==
  /\ mpc = "tracing"
  /\ cfgFile.state = "parsed"
  /\ cli.addr = None
  /\ cfgFile.content.addr # None
  /\ cli.ca_path # None
  /\ cfgFile.content.ca_path # None
  /\ ~cli.debug
  /\ cfgFile.content.debug
  /\ cli.modify
  /\ ~cfgFile.content.modify
  /\ cli.account_ids # <<>>
  /\ cfgFile.content.account_ids = cli.account_ids

\* No client was built, nothing was asked of the server and the file is untouched.
NoActivity ==
  /\ ~clientBuilt
  /\ authResult = "none"
  /\ queried = <<>>
  /\ calls = 0
  /\ pc = "idle"
  /\ disk = initial

\* A default config location exists and cannot be parsed.
InvalidDefault == \E i \in 1..Len(defaults) : defaults[i] = "invalid"

\* C7: an unparsable --config file, or a default config location that exists
\* and cannot be parsed, ends the run with a failure status before any client
\* is built, any authentication or retrieval is attempted or the file is
\* touched; an absent default location does not fail the run.
C7_ConfigErrorsFatal ==
  /\ (mpc # "start" /\ cli.config_path # None /\ cfgFile.state = "unparsable")
       => (mpc = "done" /\ status = "failure" /\ NoActivity)
  /\ InvalidDefault => (mpc = "done" /\ status = "failure" /\ NoActivity)
  /\ failCause = "default_config" => InvalidDefault

\* A run met an absent and an unparsable default config location and failed.
C7_Witness ==
  /\ defaults = <<"absent", "invalid">>
  /\ mpc = "done"
  /\ status = "failure"
  /\ args.modify
  /\ args.account_ids # <<>>

====
